---- MODULE Spec2Model ----
(***************************************************************************)
(* A model of the TSA passenger-volume report system:                      *)
(*   tsa_scraper.py        fetch with retry, table location, row parsing,  *)
(*                         multi-year aggregation                          *)
(*   production_/daily_/lambda_tsa_report.py   the gated report pipeline   *)
(*                                                                         *)
(* Cell texts are sequences of one-character strings, so that the parsing  *)
(* the scraper does (split, int(), strptime) is computed character by      *)
(* character.  A page is a sequence of tables, a table the sequence of     *)
(* its <tr> rows, a row the sequence of its <td>/<th> cells.  Tables are   *)
(* not nested.                                                             *)
(***************************************************************************)
EXTENDS Integers, Sequences, FiniteSets, TLC

\* ------------------------------------------------------------------------
\* Bounds of the model
\* ------------------------------------------------------------------------
\* data rows of a generated table (after the first row)
MaxRows == 3
\* tables of a generated page, and rows of each of its tables
MaxTables == 2
MaxPageRows == 2
\* records of a generated frame handed to calculate_yoy_growth
MaxSeries == 3
\* first and number of the years a scrape range is drawn from
FirstYear == 2024
NumYears == 3
LastYear == FirstYear + NumYears - 1

\* ------------------------------------------------------------------------
\* Text: Python str operations on sequences of characters
\* ------------------------------------------------------------------------
Digits == <<"0", "1", "2", "3", "4", "5", "6", "7", "8", "9">>

IsDigit(c) == \E i \in 1..10 : Digits[i] = c

DigitVal(c) == (CHOOSE i \in 1..10 : Digits[i] = c) - 1

AllDigits(s) == \A i \in 1..Len(s) : IsDigit(s[i])

RECURSIVE DigitsToNat(_)
DigitsToNat(s) ==
    IF s = <<>> THEN 0
    ELSE 10 * DigitsToNat(SubSeq(s, 1, Len(s) - 1)) + DigitVal(s[Len(s)])

\* c in s
Contains(s, c) == \E i \in 1..Len(s) : s[i] = c

\* s.split(sep)
RECURSIVE Split(_, _)
Split(s, sep) ==
    IF ~Contains(s, sep) THEN <<s>>
    ELSE LET i == CHOOSE k \in 1..Len(s) :
                     s[k] = sep /\ \A j \in 1..(k - 1) : s[j] # sep
         IN  <<SubSeq(s, 1, i - 1)>> \o Split(SubSeq(s, i + 1, Len(s)), sep)

\* s.replace(c, '')
Remove(s, c) == SelectSeq(s, LAMBDA x : x # c)

\* the values an attempt to convert can have
Ok(v) == [exc |-> "none", val |-> v]
Raise(e) == [exc |-> e, val |-> 0]

\* int(s): an optional sign followed by at least one digit, else ValueError
PyInt(s) ==
    LET signed == Len(s) > 0 /\ s[1] \in {"-", "+"}
        body == IF signed THEN Tail(s) ELSE s
    IN  IF body # <<>> /\ AllDigits(body)
        THEN Ok(IF signed /\ s[1] = "-" THEN 0 - DigitsToNat(body)
                ELSE DigitsToNat(body))
        ELSE Raise("ValueError")

\* ------------------------------------------------------------------------
\* Calendar dates (datetime without a time of day)
\* ------------------------------------------------------------------------
IsLeap(y) == (y % 4 = 0 /\ y % 100 # 0) \/ y % 400 = 0

DaysInMonth(y, m) ==
    IF m = 2 THEN (IF IsLeap(y) THEN 29 ELSE 28)
    ELSE IF m \in {4, 6, 9, 11} THEN 30 ELSE 31

Date(y, m, d) == [y |-> y, m |-> m, d |-> d]

\* a < b on dates
DateLess(a, b) ==
    \/ a.y < b.y
    \/ a.y = b.y /\ a.m < b.m
    \/ a.y = b.y /\ a.m = b.m /\ a.d < b.d

DateLeq(a, b) == a = b \/ DateLess(a, b)

\* the directives %m and %d: one or two digits, not zero; %Y: four digits
FieldMD(s, hi) ==
    /\ Len(s) \in {1, 2}
    /\ AllDigits(s)
    /\ DigitsToNat(s) \in 1..hi

FieldY(s) == Len(s) = 4 /\ AllDigits(s)

\* datetime(y, m, d) behind strptime: ValueError on a date that does not exist
StrptimeFields(ys, ms, ds) ==
    IF FieldY(ys) /\ FieldMD(ms, 12) /\ FieldMD(ds, 31)
    THEN LET y == DigitsToNat(ys)
             m == DigitsToNat(ms)
             d == DigitsToNat(ds)
         IN  IF y >= 1 /\ d <= DaysInMonth(y, m)
             THEN Ok(Date(y, m, d))
             ELSE Raise("ValueError")
    ELSE Raise("ValueError")

\* datetime.strptime(f"{month}/{day}/{year_part}", "%m/%d/%Y") on parts
\* that hold no "/"
strptime_mdY(month, day, year_part) == StrptimeFields(year_part, month, day)

\* datetime.strptime(date_text, "%Y-%m-%d")
strptime_iso(date_text) ==
    LET parts == Split(date_text, "-")
    IN  IF Len(parts) = 3
        THEN StrptimeFields(parts[1], parts[2], parts[3])
        ELSE Raise("ValueError")

\* ------------------------------------------------------------------------
\* Markup: cells, rows, tables, pages
\* ------------------------------------------------------------------------
td(text) == [tag |-> "td", text |-> text]
th(text) == [tag |-> "th", text |-> text]

UpperCase == <<"A", "B", "C", "D", "E", "F", "G", "H", "I", "J", "K", "L", "M",
               "N", "O", "P", "Q", "R", "S", "T", "U", "V", "W", "X", "Y", "Z">>
LowerCase == <<"a", "b", "c", "d", "e", "f", "g", "h", "i", "j", "k", "l", "m",
               "n", "o", "p", "q", "r", "s", "t", "u", "v", "w", "x", "y", "z">>

\* s.lower()
LowerChar(c) ==
    IF \E i \in 1..26 : UpperCase[i] = c
    THEN LowerCase[CHOOSE i \in 1..26 : UpperCase[i] = c]
    ELSE c

Lower(s) == [i \in 1..Len(s) |-> LowerChar(s[i])]

\* sub in s, for strings
IsSubstring(sub, s) ==
    \E i \in 0..(Len(s) - Len(sub)) : SubSeq(s, i + 1, i + Len(sub)) = sub

\* ' '.join(texts)
RECURSIVE Join(_)
Join(texts) ==
    IF texts = <<>> THEN <<>>
    ELSE IF Len(texts) = 1 THEN texts[1]
    ELSE texts[1] \o <<" ">> \o Join(Tail(texts))

\* table.find_all('th'): the header cells of all rows, in document order
RECURSIVE find_all_th(_)
find_all_th(table) ==
    IF table = <<>> THEN <<>>
    ELSE SelectSeq(table[1], LAMBDA c : c.tag = "th") \o find_all_th(Tail(table))

CellTexts(cells) == [i \in 1..Len(cells) |-> cells[i].text]

\* ------------------------------------------------------------------------
\* extract_table_data
\* ------------------------------------------------------------------------
\* a DataFrame is the sequence of its rows; pd.DataFrame() is empty
EmptyDataFrame == <<>>

\* a record tagged with the year of its own date
VolumeRecord_date_year(date, volume, year) ==
    [date |-> date, passenger_volume |-> volume, year |-> date.y]

VolumeRecord(date, volume, year) ==
    [date |-> date, passenger_volume |-> volume, year |-> year]

\* the date of a row: "skip" is the continue of line 93
ParseDate(date_text) ==
    IF Contains(date_text, "/")
    THEN LET date_parts == Split(date_text, "/")
         IN  IF Len(date_parts) = 3
             THEN LET year_part == IF Len(date_parts[3]) = 2
                                   THEN <<"2", "0">> \o date_parts[3]
                                   ELSE date_parts[3]
                  IN  strptime_mdY(date_parts[1], date_parts[2], year_part)
             ELSE Raise("skip")
    ELSE strptime_iso(date_text)

\* int(volume_text.replace(',', ''))
ParseVolume(volume_text) == PyInt(Remove(volume_text, ","))

\* the body of the loop for one row: the records it appends (none or one)
\* and the exception it raises inside the try, if any
ParseRow(cells, year) ==
    IF Len(cells) >= 2
    THEN LET date_obj == ParseDate(cells[1].text)
             volume == ParseVolume(cells[2].text)
         IN  IF date_obj.exc = "skip" THEN [exc |-> "none", data |-> <<>>]
             ELSE IF date_obj.exc # "none" THEN [exc |-> date_obj.exc, data |-> <<>>]
             ELSE IF volume.exc # "none" THEN [exc |-> volume.exc, data |-> <<>>]
             ELSE [exc |-> "none",
                   data |-> <<VolumeRecord(date_obj.val, volume.val, year)>>]
    ELSE [exc |-> "none", data |-> <<>>]

\* an except clause that names AttributeError only
RowExceptCatches_narrow(exc) == exc \in {"AttributeError"}

\* except (ValueError, AttributeError)
RowExceptCatches(exc) == exc \in {"ValueError", "AttributeError"}

\* for row in rows: ...; an exception the except clause does not catch ends
\* the call
RECURSIVE ExtractRows(_, _)
ExtractRows(rows, year) ==
    IF rows = <<>> THEN [exc |-> "none", df |-> <<>>]
    ELSE LET r == ParseRow(rows[1], year)
         IN  IF r.exc # "none" /\ ~RowExceptCatches(r.exc)
             THEN [exc |-> r.exc, df |-> EmptyDataFrame]
             ELSE LET rest == ExtractRows(Tail(rows), year)
                  IN  IF rest.exc # "none" THEN rest
                      ELSE [exc |-> "none", df |-> r.data \o rest.df]

\* rows[1:], the rows after the header row
DataRows(rows) == IF rows = <<>> THEN <<>> ELSE Tail(rows)

extract_table_data(table, year) == ExtractRows(DataRows(table), year)

\* ------------------------------------------------------------------------
\* parse_table_data
\* ------------------------------------------------------------------------
\* the value of get_page_content: None, or response.text (possibly '')
None == [kind |-> "None", empty |-> TRUE, tables |-> <<>>]
EmptyText == [kind |-> "text", empty |-> TRUE, tables |-> <<>>]
Html(tables) == [kind |-> "text", empty |-> FALSE, tables |-> tables]

\* truth value of html_content
Truthy(html_content) == html_content.kind = "text" /\ ~html_content.empty

\* a test of the header text that does not lowercase it first
HeaderMatches_case_sensitive(table) ==
    LET headers == find_all_th(table)
        header_text == Join(CellTexts(headers))
    IN  /\ headers # <<>>
        /\ \/ IsSubstring(<<"d", "a", "t", "e">>, header_text)
           \/ IsSubstring(<<"t", "s", "a">>, header_text)

\* phase 1: the table has header cells and their joined text, lowercased,
\* contains 'date' or 'tsa'
HeaderMatches(table) ==
    LET headers == find_all_th(table)
        header_text == Lower(Join(CellTexts(headers)))
    IN  /\ headers # <<>>
        /\ \/ IsSubstring(<<"d", "a", "t", "e">>, header_text)
           \/ IsSubstring(<<"t", "s", "a">>, header_text)

\* phase 2: more than one row, the first row has at least 2 cells and its
\* first cell holds a '/' and a digit
LooksLikeData(table) ==
    /\ Len(table) > 1
    /\ Len(table[1]) >= 2
    /\ LET first_cell_text == table[1][1].text
       IN  /\ Contains(first_cell_text, "/")
           /\ \E i \in 1..Len(first_cell_text) : IsDigit(first_cell_text[i])

\* the two loops in the other order: the shape of the first row is tried
\* before the header text
SelectedTable_fallback_first(tables) ==
    IF \E i \in 1..Len(tables) : LooksLikeData(tables[i])
    THEN CHOOSE i \in 1..Len(tables) :
             LooksLikeData(tables[i]) /\ \A j \in 1..(i - 1) : ~LooksLikeData(tables[j])
    ELSE IF \E i \in 1..Len(tables) : HeaderMatches(tables[i])
    THEN CHOOSE i \in 1..Len(tables) :
             HeaderMatches(tables[i]) /\ \A j \in 1..(i - 1) : ~HeaderMatches(tables[j])
    ELSE 0

\* index of the table the two loops return from, 0 when neither does
SelectedTable(tables) ==
    IF \E i \in 1..Len(tables) : HeaderMatches(tables[i])
    THEN CHOOSE i \in 1..Len(tables) :
             HeaderMatches(tables[i]) /\ \A j \in 1..(i - 1) : ~HeaderMatches(tables[j])
    ELSE IF \E i \in 1..Len(tables) : LooksLikeData(tables[i])
    THEN CHOOSE i \in 1..Len(tables) :
             LooksLikeData(tables[i]) /\ \A j \in 1..(i - 1) : ~LooksLikeData(tables[j])
    ELSE 0

parse_table_data(html_content, yr) ==
    IF ~Truthy(html_content) THEN [exc |-> "none", df |-> EmptyDataFrame]
    ELSE LET tables == html_content.tables
             k == SelectedTable(tables)
         IN  IF k = 0 THEN [exc |-> "none", df |-> EmptyDataFrame]
             ELSE extract_table_data(tables[k], yr)

\* ------------------------------------------------------------------------
\* Generated markup: rows rendered from a date and a volume, and rows that
\* are malformed in a known way
\* ------------------------------------------------------------------------
RECURSIVE NatToDigits(_)
NatToDigits(n) ==
    IF n < 10 THEN <<Digits[n + 1]>>
    ELSE NatToDigits(n \div 10) \o <<Digits[(n % 10) + 1]>>

Pad2(n) == IF n < 10 THEN <<"0">> \o NatToDigits(n) ELSE NatToDigits(n)

\* f"{v:,}"
RECURSIVE GroupThousands(_)
GroupThousands(ds) ==
    IF Len(ds) <= 3 THEN ds
    ELSE GroupThousands(SubSeq(ds, 1, Len(ds) - 3)) \o <<",">>
         \o SubSeq(ds, Len(ds) - 2, Len(ds))

RenderDate(date, style) ==
    CASE style = "mdY" ->
           NatToDigits(date.m) \o <<"/">> \o NatToDigits(date.d) \o <<"/">>
           \o NatToDigits(date.y)
      [] style = "0m0dY" ->
           Pad2(date.m) \o <<"/">> \o Pad2(date.d) \o <<"/">> \o NatToDigits(date.y)
      [] style = "mdy" ->
           NatToDigits(date.m) \o <<"/">> \o NatToDigits(date.d) \o <<"/">>
           \o Pad2(date.y % 100)
      [] style = "iso" ->
           NatToDigits(date.y) \o <<"-">> \o Pad2(date.m) \o <<"-">> \o Pad2(date.d)

\* the pages print volumes with thousands separators; the ISO rows here
\* print them without
RenderVolume(v, style) ==
    IF style = "iso" THEN NatToDigits(v) ELSE GroupThousands(NatToDigits(v))

GoodRow(date, vol, style) ==
    [kind |-> "good", date |-> date, vol |-> vol, style |-> style]
BadRow(kind) == [kind |-> kind, date |-> Date(1, 1, 1), vol |-> 0, style |-> "mdY"]

\* the malformed rows of the row-level error taxonomy
MalformedRows ==
    {BadRow(k) : k \in {"one_cell", "two_parts", "four_parts", "bad_calendar",
                        "not_iso", "bad_volume", "empty_volume"}}
\* a row with a well-formed date and the volume text -5
NegativeRow == BadRow("negative")

\* the generated rows: two well-formed observations in each date style, the
\* malformed rows and the negative one
RowSpecs ==
    {GoodRow(o[1], o[2], st) :
        o \in {<<Date(2024, 2, 29), 0>>, <<Date(2025, 3, 5), 2345678>>},
        st \in {"mdY", "0m0dY", "mdy", "iso"}}
    \cup MalformedRows \cup {NegativeRow}

RenderRow(r) ==
    CASE r.kind = "good" ->
           <<td(RenderDate(r.date, r.style)), td(RenderVolume(r.vol, r.style))>>
      [] r.kind = "one_cell" -> <<td(<<"3", "/", "5", "/", "2", "0", "2", "5">>)>>
      [] r.kind = "two_parts" -> <<td(<<"3", "/", "2", "0", "2", "5">>), td(<<"1", "0", "0">>)>>
      [] r.kind = "four_parts" ->
           <<td(<<"3", "/", "5", "/", "2", "0", "/", "2", "5">>), td(<<"1", "0", "0">>)>>
      [] r.kind = "bad_calendar" ->
           <<td(<<"2", "/", "3", "0", "/", "2", "0", "2", "4">>), td(<<"1", "0", "0">>)>>
      [] r.kind = "not_iso" -> <<td(<<"M", "a", "r", " ", "5">>), td(<<"1", "0", "0">>)>>
      [] r.kind = "bad_volume" ->
           <<td(<<"3", "/", "5", "/", "2", "0", "2", "5">>), td(<<"1", ".", "5">>)>>
      [] r.kind = "empty_volume" ->
           <<td(<<"3", "/", "5", "/", "2", "0", "2", "5">>), td(<<>>)>>
      [] r.kind = "negative" ->
           <<td(<<"3", "/", "5", "/", "2", "0", "2", "5">>), td(<<"-", "5">>)>>

\* sequences over S of length at most n
SeqUpTo(S, n) == UNION {[1..k -> S] : k \in 0..n}

\* a generated table: a first row (a header row with "Date" or "DATE", one
\* with "TSA" and no date, one with neither, or none) followed by rows
TableSpec(header, rows) == [header |-> header, rows |-> rows]

RenderRows(rows) == [i \in 1..Len(rows) |-> RenderRow(rows[i])]

RenderTable(t) ==
    LET numbers == th(<<"N", "u", "m", "b", "e", "r", "s">>)
    IN  CASE t.header = "date" ->
                <<<<th(<<"D", "a", "t", "e">>), numbers>>>> \o RenderRows(t.rows)
          [] t.header = "other" ->
                <<<<th(<<"A", "i", "r", "p", "o", "r", "t">>),
                    th(<<"C", "o", "d", "e">>)>>>> \o RenderRows(t.rows)
          [] t.header = "upper" ->
                <<<<th(<<"D", "A", "T", "E">>), numbers>>>> \o RenderRows(t.rows)
          [] t.header = "tsa" ->
                <<<<th(<<"T", "S", "A">>), numbers>>>> \o RenderRows(t.rows)
          [] t.header = "none" -> RenderRows(t.rows)

\* the records the rows denote: one per good row, in row order
RECURSIVE Denoted(_, _)
Denoted(rows, yr) ==
    IF rows = <<>> THEN <<>>
    ELSE (IF rows[1].kind = "good"
          THEN <<VolumeRecord(rows[1].date, rows[1].vol, yr)>> ELSE <<>>)
         \o Denoted(Tail(rows), yr)

\* ------------------------------------------------------------------------
\* Date arithmetic (datetime - timedelta(days = n))
\* ------------------------------------------------------------------------
\* days before January 1st of year y
DaysBeforeYear(y) ==
    (y - 1) * 365 + ((y - 1) \div 4) - ((y - 1) \div 100) + ((y - 1) \div 400)

RECURSIVE DaysBeforeMonth(_, _)
DaysBeforeMonth(y, m) ==
    IF m = 1 THEN 0 ELSE DaysBeforeMonth(y, m - 1) + DaysInMonth(y, m - 1)

ToOrdinal(date) == DaysBeforeYear(date.y) + DaysBeforeMonth(date.y, date.m) + date.d

FromOrdinal(n) ==
    LET y == CHOOSE c \in (n \div 366)..((n \div 365) + 1) :
                 DaysBeforeYear(c) < n /\ n <= DaysBeforeYear(c + 1)
        r == n - DaysBeforeYear(y)
        m == CHOOSE c \in 1..12 :
                 DaysBeforeMonth(y, c) < r /\ r <= DaysBeforeMonth(y, c) + DaysInMonth(y, c)
    IN  Date(y, m, r - DaysBeforeMonth(y, m))

\* date + timedelta(days = n)
AddDays(date, n) == FromOrdinal(ToOrdinal(date) + n)

\* ------------------------------------------------------------------------
\* calculate_yoy_growth
\* ------------------------------------------------------------------------
\* None, or the quotient num / den of a float division
Absent == [present |-> FALSE, num |-> 0, den |-> 1]
Quotient(n, d) == [present |-> TRUE, num |-> n, den |-> d]

\* df_yoy[(month == d.month) & (day == d.day) & (year == d.year)]: the
\* year column is the year the record's page was scraped for
RowsOn(df, date) ==
    SelectSeq(df, LAMBDA r : r.date.m = date.m /\ r.date.d = date.d /\ r.year = date.y)

\* a scan that takes the offset nearest to the target: 0, -1, +1, -2, ...
WindowSearch_nearest(df, last_year_date, day_offset) ==
    LET order == <<0, 0 - 1, 1, 0 - 2, 2, 0 - 3, 3>>
        found == {k \in 1..7 : RowsOn(df, AddDays(last_year_date, order[k])) # <<>>}
    IN  IF found = {} THEN <<>>
        ELSE RowsOn(df, AddDays(last_year_date,
                                order[CHOOSE k \in found : \A j \in found : k <= j]))

\* for day_offset in range(-3, 4): the first offset with rows, from lo on
RECURSIVE WindowSearch(_, _, _)
WindowSearch(df, last_year_date, day_offset) ==
    IF day_offset > 3 THEN <<>>
    ELSE LET search_data == RowsOn(df, AddDays(last_year_date, day_offset))
         IN  IF search_data # <<>> THEN search_data
             ELSE WindowSearch(df, last_year_date, day_offset + 1)

\* a windowed search that scans the window before it looks at the target
LastYearData_window_first(df, current_date, windowed) ==
    LET last_year_date == AddDays(current_date, 0 - 365)
    IN  IF windowed THEN WindowSearch(df, last_year_date, 0 - 3)
        ELSE RowsOn(df, last_year_date)

\* the exact search alone, in every variant
LastYearData_exact_only(df, current_date, windowed) ==
    RowsOn(df, AddDays(current_date, 0 - 365))

\* the rows of the prior year matched to current_date
LastYearData(df, current_date, windowed) ==
    LET last_year_date == AddDays(current_date, 0 - 365)
        exact == RowsOn(df, last_year_date)
    IN  IF exact = <<>> /\ windowed
        THEN WindowSearch(df, last_year_date, 0 - 3)
        ELSE exact

\* the division without the test last_year_volume > 0
YoYRecord_unguarded(df, row, windowed) ==
    LET last_year_data == LastYearData(df, row.date, windowed)
        last_year_volume == last_year_data[1].passenger_volume
        yoy_ratio == IF last_year_data # <<>>
                     THEN Quotient(row.passenger_volume, last_year_volume)
                     ELSE Absent
        yoy_percentage == IF yoy_ratio.present /\ yoy_ratio.num # 0
                          THEN Quotient((yoy_ratio.num - yoy_ratio.den) * 100,
                                        yoy_ratio.den)
                          ELSE Absent
    IN  [date |-> row.date, passenger_volume |-> row.passenger_volume,
         year |-> row.year, yoy_ratio |-> yoy_ratio,
         yoy_percentage |-> yoy_percentage]

YoYRecord(df, row, windowed) ==
    LET last_year_data == LastYearData(df, row.date, windowed)
        last_year_volume == last_year_data[1].passenger_volume
        yoy_ratio == IF last_year_data # <<>> /\ last_year_volume > 0
                     THEN Quotient(row.passenger_volume, last_year_volume)
                     ELSE Absent
        \* (yoy_ratio - 1) * 100 if yoy_ratio else None: a ratio of 0.0 is
        \* false in Python
        yoy_percentage == IF yoy_ratio.present /\ yoy_ratio.num # 0
                          THEN Quotient((yoy_ratio.num - yoy_ratio.den) * 100,
                                        yoy_ratio.den)
                          ELSE Absent
    IN  [date |-> row.date, passenger_volume |-> row.passenger_volume,
         year |-> row.year, yoy_ratio |-> yoy_ratio,
         yoy_percentage |-> yoy_percentage]

\* df_yoy = df: the working frame is the argument itself
df_copy_alias(frame) == [rows |-> frame, same_object |-> TRUE]

\* df_yoy = df.copy(): the working frame is a new object with the same rows
df_copy(frame) == [rows |-> frame, same_object |-> FALSE]

\* the frame passed as argument, after df_yoy['month'] = ... and
\* df_yoy['day'] = ... have run on the working frame
ArgumentAfter(frame) ==
    IF df_copy(frame).same_object
    THEN [i \in 1..Len(frame) |->
             [date |-> frame[i].date, passenger_volume |-> frame[i].passenger_volume,
              year |-> frame[i].year, month |-> frame[i].date.m, day |-> frame[i].date.d]]
    ELSE frame

\* an append placed inside the branch of a found match
calculate_yoy_growth_matched_only(df, windowed) ==
    SelectSeq([i \in 1..Len(df) |-> YoYRecord(df, df[i], windowed)],
              LAMBDA r : LastYearData(df, r.date, windowed) # <<>>)

calculate_yoy_growth(df, windowed) ==
    [i \in 1..Len(df) |-> YoYRecord(df, df[i], windowed)]

\* the value of day_offset when the loop over range(-3, 4) is left: the
\* offset of the break, 3 when the loop runs to its end
RECURSIVE WindowOffset(_, _, _)
WindowOffset(df, last_year_date, day_offset) ==
    IF day_offset >= 3 THEN 3
    ELSE IF RowsOn(df, AddDays(last_year_date, day_offset)) # <<>> THEN day_offset
    ELSE WindowOffset(df, last_year_date, day_offset + 1)

\* the local variables of one iteration of the loop over the rows, at its
\* end: day_offset is bound only when the window loop ran, last_year_volume
\* only when a match was found
LoopLocals(df, row, windowed) ==
    LET last_year_date == AddDays(row.date, 0 - 365)
        exact == RowsOn(df, last_year_date)
        last_year_data == LastYearData(df, row.date, windowed)
    IN  [last_year_date |-> last_year_date,
         day_offset |-> IF exact = <<>> /\ windowed
                        THEN [bound |-> TRUE,
                              val |-> WindowOffset(df, last_year_date, 0 - 3)]
                        ELSE [bound |-> FALSE, val |-> 0],
         matched |-> last_year_data # <<>>,
         last_year_data |-> last_year_data,
         last_year_volume |-> IF last_year_data # <<>>
                              THEN last_year_data[1].passenger_volume ELSE 0]

\* ------------------------------------------------------------------------
\* State of one report run
\* ------------------------------------------------------------------------
VARIABLES
    pc,            \* position of the run
    variant,       \* the reporter that runs: production, daily or lambda
    start_year,    \* scrape_all_years(start_year, end_year)
    end_year,
    year,          \* loop variable of scrape_all_years
    attempt,       \* loop variable of get_page_content
    calls,         \* requests and sleeps of the current get_page_content call
    html_content,  \* value returned by get_page_content
    scraped,       \* value returned by each scrape_year call so far
    all_data,      \* the non-empty per-year frames collected
    df,            \* value returned by scrape_all_years
    exc,           \* exception leaving scrape_all_years, "none" if none
    df_yoy,        \* value returned by calculate_yoy_growth
    steps,         \* steps of run_daily_report completed after the scrape
    sent,          \* emails sent
    ret,           \* value returned by run_daily_report
    gen,           \* generated markup handed to the extractor on its own
    out,           \* value the extractor returned for gen
    stats,         \* value returned by generate_summary_stats
    status,        \* statusCode returned by lambda_handler, 0 before
    dst,           \* the daylight-saving change of the modelled fortnight
    now_utc,       \* the clock: minutes since a Monday 00:00 UTC
    asked,         \* the clock when wait_until_next_905am_eastern was called
    next_run,      \* next_run of the last call of wait_until_next_905am_eastern
    runs           \* the clock at each start of run_daily_report in the loop

vars == <<pc, variant, start_year, end_year, year, attempt, calls, html_content,
          scraped, all_data, df, exc, df_yoy, steps, sent, ret, gen, out,
          stats, status, dst, now_utc, asked, next_run, runs>>

scrapeVars == <<year, attempt, calls, html_content, scraped, all_data, df, exc>>
reportVars == <<df_yoy, steps, sent, ret>>
fixedVars == <<variant, start_year, end_year, gen, out>>
handlerVars == <<stats, status>>
schedVars == <<dst, now_utc, asked, next_run, runs>>

Variants == {"production", "daily", "lambda"}

\* production, lambda and the function of test_email_report scan the +-3
\* day window; daily does not
Windowed(v) == v \in {"production", "lambda", "test_email"}

\* ------------------------------------------------------------------------
\* get_page_content
\* ------------------------------------------------------------------------
\* a retry loop that runs once more
max_retries_more == 4

max_retries == 3

\* what session.get / raise_for_status raise: a timeout, a connection
\* error, an HTTP error status
RequestFailures == {"Timeout", "ConnectionError", "HTTPError"}

\* an except clause that misses the HTTP error of raise_for_status
IsRequestException_narrow(e) == e \in {"Timeout", "ConnectionError"}

\* except requests.RequestException
IsRequestException(e) == e \in {"Timeout", "ConnectionError", "HTTPError"}

\* time.sleep(2 ** attempt)
BackoffDelay(a) == 2 ^ a

\* scrape_year: the base URL for 2025, the URL suffixed with the year else
base_year == 2025
url_of(yr) == IF yr = base_year THEN [base |-> TRUE, suffix |-> 0]
              ELSE [base |-> TRUE, suffix |-> yr]

GetCall(url, result, text) ==
    [op |-> "get", url |-> url, result |-> result, text |-> text, secs |-> 0]
SleepCall(url, secs) ==
    [op |-> "sleep", url |-> url, result |-> "none", text |-> None, secs |-> secs]

\* the bodies the server answers with
\* page of the current year, page of a prior year behind a table without
\* dates, a page whose only row cannot be parsed, a page without a table,
\* and the empty text
ResponseTexts ==
    {Html(<<RenderTable(TableSpec("date",
             <<GoodRow(Date(2025, 3, 5), 100000, "mdY"),
               GoodRow(Date(2024, 12, 31), 90000, "mdY")>>))>>),
     Html(<<RenderTable(TableSpec("other", <<>>)),
            RenderTable(TableSpec("date",
             <<GoodRow(Date(2024, 12, 31), 90000, "0m0dY"),
               GoodRow(Date(2024, 3, 5), 80000, "0m0dY")>>))>>),
     Html(<<RenderTable(TableSpec("date", <<BadRow("bad_calendar")>>))>>),
     Html(<<>>),
     EmptyText}

\* ------------------------------------------------------------------------
\* scrape_year, scrape_all_years
\* ------------------------------------------------------------------------
\* lines 123-133 of scrape_year, after get_page_content has returned
scrape_year_result(content, yr) ==
    IF Truthy(content) THEN parse_table_data(content, yr)
    ELSE [exc |-> "none", df |-> EmptyDataFrame]

\* pd.concat(all_data, ignore_index=True)
RECURSIVE concat(_)
concat(frames) == IF frames = <<>> THEN <<>> ELSE frames[1] \o concat(Tail(frames))

RemoveAt(s, i) == SubSeq(s, 1, i - 1) \o SubSeq(s, i + 1, Len(s))

\* a frame left in the order of concatenation
sort_values_date_unsorted(frame) == {frame}

\* sort_values('date'): the default sort is not stable, so every order
\* ascending in date is a possible value
RECURSIVE sort_values_date(_)
sort_values_date(frame) ==
    IF frame = <<>> THEN {<<>>}
    ELSE UNION {{<<frame[i]>> \o t : t \in sort_values_date(RemoveAt(frame, i))} :
                i \in {k \in 1..Len(frame) :
                         \A j \in 1..Len(frame) : DateLeq(frame[k].date, frame[j].date)}}

\* if not df.empty: all_data.append(df)
append_nonempty_reset(frames, frame) ==
    IF frame # EmptyDataFrame THEN Append(frames, frame) ELSE <<>>

append_nonempty(frames, frame) ==
    IF frame # EmptyDataFrame THEN Append(frames, frame) ELSE frames

\* a guard that asks for more than one frame
combine_many(frames) ==
    IF Len(frames) > 1 THEN sort_values_date(concat(frames)) ELSE {EmptyDataFrame}

\* lines 145-152: the values scrape_all_years can return
combine(frames) ==
    IF frames # <<>> THEN sort_values_date(concat(frames)) ELSE {EmptyDataFrame}

\* ------------------------------------------------------------------------
\* Initial states
\* ------------------------------------------------------------------------
NoGen == [kind |-> "none"]
NoOut == [exc |-> "none", df |-> EmptyDataFrame]
NoRun == [wall |-> 0, utcoffset |-> 0]
NoStats == [kind |-> "none"]

\* the reporters of production and daily are constructed before the run
\* starts; lambda_handler constructs its reporter inside its try block
Init ==
    /\ variant \in Variants
    /\ pc = IF variant = "lambda" THEN "construct" ELSE "loop"
    /\ start_year \in FirstYear..LastYear
    /\ end_year \in start_year..LastYear
    /\ year = start_year
    /\ attempt = 0
    /\ calls = <<>>
    /\ html_content = None
    /\ scraped = <<>>
    /\ all_data = <<>>
    /\ df = EmptyDataFrame
    /\ exc = "none"
    /\ df_yoy = <<>>
    /\ steps = {}
    /\ sent = 0
    /\ ret = "none"
    /\ stats = NoStats
    /\ status = 0
    /\ dst = "none"
    /\ now_utc = 0
    /\ asked = 0
    /\ next_run = NoRun
    /\ runs = <<>>
    /\ gen = NoGen
    /\ out = NoOut

\* ------------------------------------------------------------------------
\* Actions of the scrape
\* ------------------------------------------------------------------------
\* scrape_all_years enters the loop body for a year: scrape_year resolves
\* the URL and calls get_page_content
BeginYear ==
    /\ pc = "loop"
    /\ year <= end_year
    /\ pc' = "get"
    /\ attempt' = 0
    /\ calls' = <<>>
    /\ html_content' = None
    /\ UNCHANGED <<year, scraped, all_data, df, exc, reportVars, fixedVars, handlerVars, schedVars>>

\* one attempt succeeds: get_page_content returns response.text
AttemptOk ==
    /\ pc = "get"
    /\ \E text \in ResponseTexts :
          /\ calls' = Append(calls, GetCall(url_of(year), "ok", text))
          /\ html_content' = text
    /\ pc' = "parse"
    /\ UNCHANGED <<year, attempt, scraped, all_data, df, exc, reportVars, fixedVars, handlerVars, schedVars>>

\* one attempt fails: back off, give up with None, or let the exception go
AttemptFails ==
    /\ pc = "get"
    /\ \E e \in RequestFailures :
          /\ calls' = Append(calls, GetCall(url_of(year), e, None))
          /\ IF IsRequestException(e)
             THEN /\ exc' = exc
                  /\ pc' = IF attempt < max_retries - 1 THEN "backoff" ELSE "parse"
             ELSE /\ exc' = e
                  /\ pc' = "returned"
    /\ html_content' = None
    /\ UNCHANGED <<year, attempt, scraped, all_data, df, reportVars, fixedVars, handlerVars, schedVars>>

\* time.sleep(2 ** attempt), then the next iteration
Backoff ==
    /\ pc = "backoff"
    /\ calls' = Append(calls, SleepCall(url_of(year), BackoffDelay(attempt)))
    /\ attempt' = attempt + 1
    /\ pc' = "get"
    /\ UNCHANGED <<year, html_content, scraped, all_data, df, exc, reportVars, fixedVars, handlerVars, schedVars>>

\* the rest of scrape_year and the append of scrape_all_years
ParseYear ==
    /\ pc = "parse"
    /\ LET r == scrape_year_result(html_content, year)
       IN  IF r.exc # "none"
           THEN /\ exc' = r.exc
                /\ pc' = "returned"
                /\ UNCHANGED <<scraped, all_data>>
           ELSE /\ exc' = exc
                /\ pc' = "pause"
                /\ scraped' = Append(scraped, [year |-> year, df |-> r.df,
                                               fetched |-> html_content # None])
                /\ all_data' = append_nonempty(all_data, r.df)
    /\ UNCHANGED <<year, attempt, calls, html_content, df, reportVars, fixedVars, handlerVars, schedVars>>

\* a loop that steps over every other year
Pause_skip ==
    /\ pc = "pause"
    /\ year' = year + 2
    /\ pc' = "loop"
    /\ attempt' = 0
    /\ calls' = <<>>
    /\ html_content' = None
    /\ UNCHANGED <<scraped, all_data, df, exc, reportVars, fixedVars, handlerVars, schedVars>>

\* time.sleep(1), then the next year; the locals of the scrape_year call
\* that returned are gone
Pause ==
    /\ pc = "pause"
    /\ year' = year + 1
    /\ pc' = "loop"
    /\ attempt' = 0
    /\ calls' = <<>>
    /\ html_content' = None
    /\ UNCHANGED <<scraped, all_data, df, exc, reportVars, fixedVars, handlerVars, schedVars>>

\* the loop is over: concatenate and sort, or return the empty frame
Combine ==
    /\ pc = "loop"
    /\ year > end_year
    /\ df' \in combine(all_data)
    /\ pc' = "returned"
    /\ UNCHANGED <<year, attempt, calls, html_content, scraped, all_data, exc,
                   reportVars, fixedVars, handlerVars, schedVars>>

\* ------------------------------------------------------------------------
\* Actions of run_daily_report
\* ------------------------------------------------------------------------
\* a guard that lets every frame pass
df_empty_never(frame) == FALSE

\* df.empty, the guard of scrape_latest_data
df_empty(frame) == frame = EmptyDataFrame

\* the variants that write the scraped frame and the YoY frame to disk
WritesFiles(v) == v \in {"production", "daily"}

\* scrape_latest_data after scrape_all_years, and the check of step 1:
\* None (and so False) for an empty frame, for an exception, and for a
\* CSV that cannot be written
ScrapeLatestData ==
    /\ pc = "returned"
    /\ \E io_ok \in BOOLEAN :
          /\ (~WritesFiles(variant) => io_ok)
          /\ IF exc # "none" \/ df_empty(df) \/ ~io_ok
             THEN pc' = "done" /\ ret' = "False"
             ELSE pc' = "reconcile" /\ ret' = ret
    /\ UNCHANGED <<scrapeVars, df_yoy, steps, sent, fixedVars, handlerVars, schedVars>>

\* step 2
CalculateYoY ==
    /\ pc = "reconcile"
    /\ df_yoy' = calculate_yoy_growth(df, Windowed(variant))
    /\ df' = ArgumentAfter(df)
    /\ steps' = steps \cup {"reconcile"}
    /\ pc' = "chart"
    /\ UNCHANGED <<year, attempt, calls, html_content, scraped, all_data, exc,
                   sent, ret, fixedVars, handlerVars, schedVars>>

\* a dropna that keeps every record
dropna_yoy_keep_all(frame) == frame

\* df_yoy.dropna(subset=['yoy_percentage'])
dropna_yoy(frame) == SelectSeq(frame, LAMBDA r : r.yoy_percentage.present)

\* step 3: None when no record has a YoY percentage; plotting can fail
CreateVisualization ==
    /\ pc = "chart"
    /\ \E plot_ok \in BOOLEAN :
          IF dropna_yoy(df_yoy) # <<>> /\ plot_ok
          THEN pc' = "stats" /\ ret' = ret /\ steps' = steps \cup {"chart"}
          ELSE pc' = "done" /\ ret' = "False" /\ steps' = steps
    /\ UNCHANGED <<scrapeVars, df_yoy, sent, fixedVars, handlerVars, schedVars>>

\* ------------------------------------------------------------------------
\* generate_summary_stats
\* ------------------------------------------------------------------------
\* the values a statistic can take: None, nan, or the float num / den
PyNone == [kind |-> "None", num |-> 0, den |-> 1]
NaN == [kind |-> "nan", num |-> 0, den |-> 1]
Float(n, d) == [kind |-> "float", num |-> n, den |-> d]

\* the truth value of x in 'if x': None and 0.0 are false, nan is true
PyBool(x) == x.kind = "nan" \/ (x.kind = "float" /\ x.num # 0)

\* df_yoy['yoy_percentage'] of pd.DataFrame(yoy_data), row i: the column is
\* float64 with nan in place of None when some record has a number, and
\* holds the None objects when no record has one
YoYColumn(frame, i) ==
    IF frame[i].yoy_percentage.present
    THEN Float(frame[i].yoy_percentage.num, frame[i].yoy_percentage.den)
    ELSE IF \E k \in 1..Len(frame) : frame[k].yoy_percentage.present
         THEN NaN
         ELSE PyNone

RECURSIVE Gcd(_, _)
Gcd(a, b) == IF b = 0 THEN a ELSE Gcd(b, a % b)

\* x rounded to one decimal, in tenths, ties to the even tenth
RoundTenths(x) ==
    LET g == Gcd(IF x.num < 0 THEN 0 - x.num ELSE x.num, x.den)
        n == (x.num \div g) * 10
        d == x.den \div g
        t == n \div d
        r == n % d
    IN  IF 2 * r > d \/ (2 * r = d /\ t % 2 = 1) THEN t + 1 ELSE t

\* f"{x:.1f}%" if x else "N/A"
FormatPercent(x) ==
    IF PyBool(x)
    THEN IF x.kind = "nan"
         THEN [text |-> "nan%", tenths |-> 0]
         ELSE [text |-> "percent", tenths |-> RoundTenths(x)]
    ELSE [text |-> "N/A", tenths |-> 0]

RECURSIVE SumVolumes(_)
SumVolumes(rows) ==
    IF rows = <<>> THEN 0
    ELSE rows[1].passenger_volume + SumVolumes(Tail(rows))

\* rows['passenger_volume'].mean(): nan for no rows
MeanVolume(rows) ==
    IF rows = <<>> THEN NaN ELSE Float(SumVolumes(rows), Len(rows))

\* num / den in lowest terms
Reduced(n, d) ==
    LET g == Gcd(IF n < 0 THEN 0 - n ELSE n, d)
    IN  Float(n \div g, d \div g)

RECURSIVE SumPercentages(_)
SumPercentages(rows) ==
    IF rows = <<>> THEN Float(0, 1)
    ELSE LET x == Reduced(rows[1].yoy_percentage.num, rows[1].yoy_percentage.den)
             rest == SumPercentages(Tail(rows))
         IN  Reduced(x.num * rest.den + rest.num * x.den, x.den * rest.den)

\* df_yoy['date'].max()
MaxDate(frame) ==
    CHOOSE d \in {frame[i].date : i \in 1..Len(frame)} :
        \A i \in 1..Len(frame) : DateLeq(frame[i].date, d)

\* ((ytd_avg_volume / prev_ytd_avg) - 1) * 100 if prev_ytd_avg else None
YtdYoY(ytd_avg_volume, prev_ytd_avg) ==
    IF PyBool(prev_ytd_avg)
    THEN IF ytd_avg_volume.kind = "nan" \/ prev_ytd_avg.kind = "nan"
         THEN NaN
         ELSE Float((ytd_avg_volume.num * prev_ytd_avg.den
                        - prev_ytd_avg.num * ytd_avg_volume.den) * 100,
                    prev_ytd_avg.num * ytd_avg_volume.den)
    ELSE PyNone

\* the position of df_yoy[df_yoy['date'] == latest_date].iloc[0]
LatestIndex(frame) ==
    CHOOSE i \in 1..Len(frame) :
        /\ frame[i].date = MaxDate(frame)
        /\ \A k \in 1..(i - 1) : frame[k].date # MaxDate(frame)

\* the dictionary generate_summary_stats returns, the date and the volumes
\* before their formatting
generate_summary_stats(frame) ==
    LET latest_date == MaxDate(frame)
        latest == LatestIndex(frame)
        thirty_days_ago == AddDays(latest_date, 0 - 30)
        recent_data == SelectSeq(frame, LAMBDA r : DateLeq(thirty_days_ago, r.date))
        recent_yoy == SelectSeq(recent_data, LAMBDA r : r.yoy_percentage.present)
        \* recent_data['yoy_percentage'].dropna().mean(): nan for no value
        avg_yoy_30d == IF recent_yoy = <<>> THEN NaN
                       ELSE Reduced(SumPercentages(recent_yoy).num,
                                    SumPercentages(recent_yoy).den * Len(recent_yoy))
        ytd_data == SelectSeq(frame, LAMBDA r : r.year = latest_date.y)
        ytd_avg_volume == MeanVolume(ytd_data)
        prev_year_ytd == SelectSeq(frame, LAMBDA r : r.year = latest_date.y - 1)
        prev_ytd_avg == IF prev_year_ytd # <<>> THEN MeanVolume(prev_year_ytd)
                        ELSE PyNone
    IN  [kind |-> "summary",
         latest_date |-> latest_date,
         latest_volume |-> frame[latest].passenger_volume,
         latest_yoy |-> FormatPercent(YoYColumn(frame, latest)),
         avg_volume_30d |-> MeanVolume(recent_data),
         avg_yoy_30d |-> FormatPercent(avg_yoy_30d),
         ytd_avg_volume |-> ytd_avg_volume,
         ytd_yoy |-> FormatPercent(YtdYoY(ytd_avg_volume, prev_ytd_avg)),
         total_records |-> Len(frame)]

\* step 4
GenerateSummaryStats ==
    /\ pc = "stats"
    /\ stats' = generate_summary_stats(df_yoy)
    /\ steps' = steps \cup {"stats"}
    /\ pc' = IF WritesFiles(variant) THEN "csv" ELSE "email"
    /\ UNCHANGED <<scrapeVars, df_yoy, sent, ret, fixedVars, status, schedVars>>

\* step 5 of production and daily: df_yoy.to_csv(csv_filename)
SaveYoYCsv ==
    /\ pc = "csv"
    /\ \E io_ok \in BOOLEAN :
          IF io_ok
          THEN pc' = "email" /\ ret' = ret /\ steps' = steps \cup {"csv"}
          ELSE pc' = "done" /\ ret' = "False" /\ steps' = steps
    /\ UNCHANGED <<scrapeVars, df_yoy, sent, fixedVars, handlerVars, schedVars>>

\* the last step: send_email_report returns True after server.send_message
\* and False on any exception; lambda builds its CSV attachment here
SendEmailReport ==
    /\ pc = "email"
    /\ \E smtp_ok \in BOOLEAN :
          IF smtp_ok
          THEN /\ sent' = sent + 1
               /\ ret' = "True"
               /\ steps' = steps \cup {"csv", "email"}
          ELSE /\ sent' = sent
               /\ ret' = "False"
               /\ steps' = steps
    /\ pc' = "done"
    /\ UNCHANGED <<scrapeVars, df_yoy, fixedVars, handlerVars, schedVars>>

\* LambdaTSAReporter(): ValueError when an environment variable is missing,
\* caught by the except clause of lambda_handler
Construct ==
    /\ pc = "construct"
    /\ \E env_ok \in BOOLEAN :
          IF env_ok
          THEN pc' = "loop" /\ status' = status
          ELSE pc' = "handled" /\ status' = 500
    /\ UNCHANGED <<scrapeVars, reportVars, fixedVars, stats, schedVars>>

\* 'statusCode': 200 if success else 500
LambdaHandler ==
    /\ pc = "done"
    /\ variant = "lambda"
    /\ status' = IF ret = "True" THEN 200 ELSE 500
    /\ pc' = "handled"
    /\ UNCHANGED <<scrapeVars, reportVars, fixedVars, stats, schedVars>>

Next ==
    \/ Construct
    \/ LambdaHandler
    \/ BeginYear
    \/ AttemptOk
    \/ AttemptFails
    \/ Backoff
    \/ ParseYear
    \/ Pause
    \/ Combine
    \/ ScrapeLatestData
    \/ CalculateYoY
    \/ CreateVisualization
    \/ GenerateSummaryStats
    \/ SaveYoYCsv
    \/ SendEmailReport

Spec == Init /\ [][Next]_vars

\* ------------------------------------------------------------------------
\* The extractor on its own: extract_table_data on a generated table,
\* parse_table_data on a generated page
\* ------------------------------------------------------------------------
Headers == {"date", "other", "none"}

TableInputs ==
    {[kind |-> "table", header |-> h, rows |-> rows, year |-> yr] :
        h \in Headers, rows \in SeqUpTo(RowSpecs, MaxRows), yr \in {FirstYear, LastYear}}

\* a page of tables, or the empty response text (blank)
PageInputs ==
    {[kind |-> "page", tables |-> ts, year |-> LastYear, blank |-> FALSE] :
        ts \in SeqUpTo({TableSpec(h, rows) :
                            h \in Headers \cup {"upper", "tsa"},
                            rows \in SeqUpTo({GoodRow(Date(2025, 3, 5), 2345678, "mdY"),
                                              GoodRow(Date(2024, 2, 29), 0, "iso"),
                                              BadRow("bad_volume")}, MaxPageRows)},
                        MaxTables)}
    \cup {[kind |-> "page", tables |-> <<>>, year |-> LastYear, blank |-> TRUE]}

RenderPage(tables) == Html([i \in 1..Len(tables) |-> RenderTable(tables[i])])

PageText(g) == IF g.blank THEN EmptyText ELSE RenderPage(g.tables)

IdleRun ==
    /\ variant = "production"
    /\ start_year = FirstYear
    /\ end_year = FirstYear
    /\ year = FirstYear
    /\ attempt = 0
    /\ calls = <<>>
    /\ html_content = None
    /\ scraped = <<>>
    /\ all_data = <<>>
    /\ df = EmptyDataFrame
    /\ exc = "none"
    /\ df_yoy = <<>>
    /\ steps = {}
    /\ sent = 0
    /\ ret = "none"
    /\ stats = NoStats
    /\ status = 0
    /\ dst = "none"
    /\ now_utc = 0
    /\ asked = 0
    /\ next_run = NoRun
    /\ runs = <<>>
    /\ out = NoOut

InitExtract ==
    /\ pc = "table_in"
    /\ gen \in TableInputs
    /\ IdleRun

ExtractTable ==
    /\ pc = "table_in"
    /\ out' = extract_table_data(RenderTable(gen), gen.year)
    /\ pc' = "extracted"
    /\ UNCHANGED <<scrapeVars, reportVars, variant, start_year, end_year, gen, handlerVars, schedVars>>

NextExtract == ExtractTable

SpecExtract == InitExtract /\ [][NextExtract]_vars

InitParse ==
    /\ pc = "page_in"
    /\ gen \in PageInputs
    /\ IdleRun

ParsePage ==
    /\ pc = "page_in"
    /\ out' = parse_table_data(PageText(gen), gen.year)
    /\ pc' = "parsed"
    /\ UNCHANGED <<scrapeVars, reportVars, variant, start_year, end_year, gen, handlerVars, schedVars>>

NextParse == ParsePage

SpecParse == InitParse /\ [][NextParse]_vars

\* the rows of a generated table that extract_table_data iterates over:
\* all but the first row of the table
DataRowSpecs(t) == IF t.header = "none" THEN DataRows(t.rows) ELSE t.rows

\* ------------------------------------------------------------------------
\* The reconciler on its own: calculate_yoy_growth of each reporter on a
\* generated frame
\* ------------------------------------------------------------------------
\* dates around 2024-03-15, whose date 365 days before is 2023-03-16, each
\* with a volume
SeriesObservations ==
    {<<Date(2022, 3, 15), 80000>>, <<Date(2023, 3, 13), 91000>>,
     <<Date(2023, 3, 15), 90000>>, <<Date(2023, 3, 16), 92000>>,
     <<Date(2023, 3, 16), 100000>>,
     <<Date(2023, 3, 17), 95000>>, <<Date(2024, 3, 15), 100000>>}

\* a record has its volume or 0, and the tag of its year's page or, for
\* the two dates also found on the page of the next year, of the next year's
SeriesRecords ==
    UNION {{VolumeRecord(o[1], v, yr) :
               v \in {o[2], 0},
               yr \in {o[1].y} \cup (IF o[1] \in {Date(2022, 3, 15), Date(2023, 3, 15)}
                                      THEN {o[1].y + 1} ELSE {})} :
              o \in SeriesObservations}

\* the frames scrape_latest_data hands on: not empty, sorted by date
SeriesInputs ==
    {s \in SeqUpTo(SeriesRecords, MaxSeries) :
        /\ s # <<>>
        /\ \A i \in 1..(Len(s) - 1) : DateLeq(s[i].date, s[i + 1].date)}

InitYoY ==
    /\ pc = "series_in"
    /\ variant \in Variants \cup {"test_email"}
    /\ df \in SeriesInputs
    /\ start_year = FirstYear
    /\ end_year = FirstYear
    /\ year = FirstYear
    /\ attempt = 0
    /\ calls = <<>>
    /\ html_content = None
    /\ scraped = <<>>
    /\ all_data = <<>>
    /\ exc = "none"
    /\ df_yoy = <<>>
    /\ steps = {}
    /\ sent = 0
    /\ ret = "none"
    /\ stats = NoStats
    /\ status = 0
    /\ dst = "none"
    /\ now_utc = 0
    /\ asked = 0
    /\ next_run = NoRun
    /\ runs = <<>>
    /\ gen = NoGen
    /\ out = <<>>

\* df_yoy = calculate_yoy_growth(df); out keeps the locals of each iteration
Reconcile ==
    /\ pc = "series_in"
    /\ df_yoy' = calculate_yoy_growth(df, Windowed(variant))
    /\ df' = ArgumentAfter(df)
    /\ out' = [i \in 1..Len(df) |-> LoopLocals(df, df[i], Windowed(variant))]
    /\ pc' = "reconciled"
    /\ UNCHANGED <<year, attempt, calls, html_content, scraped, all_data, exc,
                   steps, sent, ret, variant, start_year, end_year, gen, handlerVars, schedVars>>

\* summary_stats = generate_summary_stats(df_yoy), reached when
\* create_visualization has found a record with a YoY percentage
SummaryStats ==
    /\ pc = "reconciled"
    /\ dropna_yoy(df_yoy) # <<>>
    /\ stats' = generate_summary_stats(df_yoy)
    /\ pc' = "summarised"
    /\ UNCHANGED <<scrapeVars, reportVars, fixedVars, status, schedVars>>

NextYoY == Reconcile \/ SummaryStats

SpecYoY == InitYoY /\ [][NextYoY]_vars

\* ------------------------------------------------------------------------
\* The scheduling loop of production_tsa_report
\* ------------------------------------------------------------------------
\* the last day, counted from the Monday the clock starts at, on which
\* wait_until_next_905am_eastern is still called
MaxDay == 9

\* the offset of US/Eastern from UTC, in minutes, at the instant utc: the
\* clocks change on the first Sunday at 2:00 EST in spring and at 2:00 EDT
\* in fall
UtcOffset(season, utc) ==
    LET EST == 0 - 300
        EDT == 0 - 240
        change == 6 * 1440 + 120 - (IF season = "spring" THEN EST ELSE EDT)
    IN  IF season = "none" THEN EST
        ELSE IF season = "spring"
             THEN IF utc < change THEN EST ELSE EDT
             ELSE IF utc < change THEN EDT ELSE EST

\* now_utc.astimezone(EASTERN): the wall clock in minutes since the Monday
\* 00:00 and the fixed offset of the tzinfo the datetime carries
astimezone(season, utc) ==
    [wall |-> utc + UtcOffset(season, utc), utcoffset |-> UtcOffset(season, utc)]

\* dt.weekday(): 0 is Monday
weekday(dt) == (dt.wall \div 1440) % 7

\* dt.replace(hour=9, minute=5, second=0, microsecond=0): the tzinfo stays
replace_905(dt) ==
    [wall |-> (dt.wall \div 1440) * 1440 + 9 * 60 + 5, utcoffset |-> dt.utcoffset]

\* dt + timedelta(days=n): wall-clock arithmetic, the tzinfo stays
plus_days(dt, n) == [wall |-> dt.wall + n * 1440, utcoffset |-> dt.utcoffset]

\* the loop 'while (now_et + timedelta(days=days_ahead)).weekday() >= 5'
RECURSIVE DaysAhead(_, _)
DaysAhead(now_et, days_ahead) ==
    IF weekday(plus_days(now_et, days_ahead)) >= 5
    THEN DaysAhead(now_et, days_ahead + 1)
    ELSE days_ahead

\* next_run of wait_until_next_905am_eastern
NextRun(now_et) ==
    IF now_et.wall >= replace_905(now_et).wall \/ weekday(now_et) >= 5
    THEN replace_905(plus_days(now_et, DaysAhead(now_et, 1)))
    ELSE replace_905(now_et)

\* the process is started on a day of the first week at one of six minutes
\* of the day (UTC)
InitSchedule ==
    /\ pc = "wait"
    /\ variant = "production"
    /\ dst \in {"none", "spring", "fall"}
    /\ \E d \in 0..6,
          m \in {5 * 60, 13 * 60, 13 * 60 + 5, 14 * 60 + 5, 14 * 60 + 10, 20 * 60} :
             now_utc = d * 1440 + m
    /\ asked = 0
    /\ next_run = NoRun
    /\ runs = <<>>
    /\ start_year = FirstYear
    /\ end_year = FirstYear
    /\ year = FirstYear
    /\ attempt = 0
    /\ calls = <<>>
    /\ html_content = None
    /\ scraped = <<>>
    /\ all_data = <<>>
    /\ df = EmptyDataFrame
    /\ exc = "none"
    /\ df_yoy = <<>>
    /\ steps = {}
    /\ sent = 0
    /\ ret = "none"
    /\ stats = NoStats
    /\ status = 0
    /\ gen = NoGen
    /\ out = <<>>

\* wait_until_next_905am_eastern(): time.sleep returns wait_seconds later;
\* wait_seconds is next_run - now_et, both with the tzinfo of now_et
WaitUntilNext905 ==
    /\ pc = "wait"
    /\ now_utc < (MaxDay + 1) * 1440
    /\ LET now_et == astimezone(dst, now_utc)
           wait_minutes == (NextRun(now_et).wall - NextRun(now_et).utcoffset)
                               - (now_et.wall - now_et.utcoffset)
       IN  /\ next_run' = NextRun(now_et)
           /\ now_utc' = now_utc + wait_minutes
    /\ asked' = now_utc
    /\ pc' = "report"
    /\ UNCHANGED <<scrapeVars, reportVars, fixedVars, handlerVars, dst, runs>>

\* reporter.run_daily_report() of the loop, taking 1 or 20 minutes
RunReport ==
    /\ pc = "report"
    /\ runs' = Append(runs, now_utc)
    /\ \E minutes \in {1, 20} : now_utc' = now_utc + minutes
    /\ pc' = "wait"
    /\ UNCHANGED <<scrapeVars, reportVars, fixedVars, handlerVars, dst, asked,
                   next_run>>

NextSchedule == WaitUntilNext905 \/ RunReport

SpecSchedule == InitSchedule /\ [][NextSchedule]_vars

\* ------------------------------------------------------------------------
\* Properties of the fetch and of the aggregation (specification Spec)
\* ------------------------------------------------------------------------
\* get_page_content is running or has returned to scrape_year
Fetched == pc \in {"parse", "pause"}

Count(frame, r) == Cardinality({i \in 1..Len(frame) : frame[i] = r})
Range(frame) == {frame[i] : i \in 1..Len(frame)}

\* C1: get_page_content makes at most 3 attempts; the requests and the
\* sleeps alternate, the first sleep is 1s and the second 2s; a failed
\* attempt of any kind before the third is followed by a sleep and another
\* attempt; a successful attempt is the last one and its body is returned;
\* the third failure returns None.
C1_RetryPolicy ==
    pc \in {"get", "backoff", "parse", "pause"} =>
      LET n == Len(calls)
      IN  /\ n <= 5
          /\ Cardinality({i \in 1..n : calls[i].op = "get"}) <= 3
          /\ \A i \in 1..n :
                /\ (i % 2 = 1) => calls[i].op = "get"
                /\ (i % 2 = 0) => /\ calls[i].op = "sleep"
                                  /\ calls[i].secs = (IF i = 2 THEN 1 ELSE 2)
                                  /\ calls[i - 1].result \in RequestFailures
                /\ (calls[i].op = "get" /\ calls[i].result = "ok") =>
                      /\ i = n
                      /\ Fetched
                      /\ html_content = calls[i].text
                /\ (calls[i].op = "get" /\ calls[i].result \in RequestFailures) =>
                      IF i < 5
                      THEN i < n \/ pc = "backoff"
                      ELSE Fetched /\ html_content = None
          /\ pc = "get" => (n = 0 \/ calls[n].op = "sleep")
          /\ pc = "backoff" => (n > 0 /\ calls[n].op = "get")
          /\ Fetched => (n > 0 /\ calls[n].op = "get")

\* two failures of different kinds, two sleeps, then the body of the third
\* attempt
C1_Witness ==
    /\ pc = "parse"
    /\ Len(calls) = 5
    /\ calls[1].result = "Timeout"
    /\ calls[2].secs = 1
    /\ calls[3].result = "HTTPError"
    /\ calls[4].secs = 2
    /\ calls[5].result = "ok"
    /\ html_content = calls[5].text

\* C2: no exception leaves get_page_content; when the last attempt has
\* failed the call returns None, and scrape_year returns the empty frame
\* for that year.
C2_NeverRaises ==
    /\ exc \notin RequestFailures
    /\ pc # "returned" \/ exc = "none"
    /\ (Fetched /\ calls[Len(calls)].result \in RequestFailures) =>
          html_content = None
    /\ (pc = "pause" /\ html_content = None) =>
          /\ scraped[Len(scraped)].year = year
          /\ scraped[Len(scraped)].df = EmptyDataFrame

\* three failed attempts, the last an HTTP error, and an empty year
C2_Witness ==
    /\ pc = "pause"
    /\ Len(calls) = 5
    /\ calls[5].result = "HTTPError"
    /\ html_content = None
    /\ scraped[Len(scraped)].df = EmptyDataFrame
    /\ ~scraped[Len(scraped)].fetched

\* C3: when scrape_all_years returns, scrape_year has run once for every
\* year of the range, in order, and the frame returned holds exactly the
\* records of the per-year frames: each as often as they hold it.
C3_FaultIsolation ==
    pc = "returned" =>
      /\ exc = "none"
      /\ Len(scraped) = end_year - start_year + 1
      /\ \A i \in 1..Len(scraped) : scraped[i].year = start_year + i - 1
      /\ LET union == concat([i \in 1..Len(scraped) |-> scraped[i].df])
         IN  /\ Len(df) = Len(union)
             /\ \A r \in Range(union) \cup Range(df) : Count(df, r) = Count(union, r)

\* a year without data between two years with data
C3_Witness ==
    /\ pc = "returned"
    /\ Len(scraped) = 3
    /\ scraped[1].df # EmptyDataFrame
    /\ scraped[2].df = EmptyDataFrame
    /\ ~scraped[2].fetched
    /\ scraped[3].df # EmptyDataFrame
    /\ Len(df) = Len(scraped[1].df) + Len(scraped[3].df)

\* C4: the frame scrape_all_years returns is in ascending order of date.
C4_SortedByDate ==
    pc = "returned" =>
      \A i \in 1..Len(df) : \A j \in i..Len(df) : DateLeq(df[i].date, df[j].date)

\* pages listed newest first, a record dated in another year than its page,
\* a date on two pages: the concatenation is not in order
C4_Witness ==
    /\ pc = "returned"
    /\ Len(df) >= 4
    /\ df # concat(all_data)
    /\ \E i \in 1..Len(df) : df[i].date.y # df[i].year
    /\ \E i \in 1..(Len(df) - 1) : df[i].date = df[i + 1].date

\* C5: the frame scrape_all_years returns is empty exactly when every
\* scrape_year call returned the empty frame; so it is when every fetch
\* failed.
C5_EmptyIffAllEmpty ==
    pc = "returned" =>
      /\ df = EmptyDataFrame <=>
            \A i \in 1..Len(scraped) : scraped[i].df = EmptyDataFrame
      /\ (\A i \in 1..Len(scraped) : ~scraped[i].fetched) => df = EmptyDataFrame

\* every fetch of a range of two years or more failed
C5_Witness ==
    /\ pc = "returned"
    /\ Len(scraped) >= 2
    /\ \A i \in 1..Len(scraped) : ~scraped[i].fetched
    /\ df = EmptyDataFrame

\* C6: in a run of any reporter, once scrape_all_years has returned the
\* empty frame the run is over with False: nothing is reconciled, charted,
\* written or sent.
C6_EmptyAborts ==
    (pc \in {"reconcile", "chart", "stats", "csv", "email", "done"}
        /\ df = EmptyDataFrame) =>
      /\ pc = "done"
      /\ ret = "False"
      /\ steps = {}
      /\ df_yoy = <<>>
      /\ sent = 0

\* a lambda run over years that all came back empty
C6_Witness ==
    /\ pc = "done"
    /\ variant = "lambda"
    /\ Len(scraped) >= 2
    /\ df = EmptyDataFrame
    /\ ret = "False"
    /\ sent = 0

\* C7: no two records of the frame scrape_all_years returns have the same
\* date.
C7_NoDuplicateDates ==
    pc = "returned" =>
      \A i \in 1..Len(df) : \A j \in 1..Len(df) :
          df[i].date = df[j].date => i = j

\* ------------------------------------------------------------------------
\* Properties of extract_table_data (specification SpecExtract)
\* ------------------------------------------------------------------------
\* C8: every record extract_table_data returns has a volume >= 0.
C8_NonNegativeVolumes ==
    pc = "extracted" =>
      \A i \in 1..Len(out.df) : out.df[i].passenger_volume >= 0

\* C9: on a table whose rows after the first are well-formed or malformed
\* in one of the ways of the taxonomy, extract_table_data raises nothing
\* and returns exactly the records of the well-formed rows, in row order.
C9_RowFaultTolerance ==
    (pc = "extracted" /\ \A i \in 1..Len(gen.rows) : gen.rows[i] # NegativeRow) =>
      /\ out.exc = "none"
      /\ out.df = Denoted(DataRowSpecs(gen), gen.year)

\* a malformed row between two well-formed rows
C9_Witness ==
    /\ pc = "extracted"
    /\ gen.header = "date"
    /\ Len(gen.rows) = 3
    /\ gen.rows[1].kind = "good"
    /\ gen.rows[2] \in MalformedRows
    /\ gen.rows[3].kind = "good"
    /\ Len(out.df) = 2
    /\ out.df[1].date = gen.rows[1].date
    /\ out.df[2].date = gen.rows[3].date

\* ------------------------------------------------------------------------
\* Properties of parse_table_data (specification SpecParse)
\* ------------------------------------------------------------------------
\* C10: when the table parse_table_data extracts from has N rows of a date
\* and a volume, all well-formed, the frame returned has exactly their N
\* records, in row order, each with the date and the volume of its row.
C10_RoundTrip ==
    pc = "parsed" =>
      LET k == SelectedTable(RenderPage(gen.tables).tables)
      IN  (k # 0 /\ \A i \in 1..Len(gen.tables[k].rows) :
                        gen.tables[k].rows[i].kind = "good") =>
             /\ out.exc = "none"
             /\ out.df = Denoted(gen.tables[k].rows, gen.year)

\* the header cells of a generated table hold "date" (in some letter case)
HasDateHeader(t) == t.header \in {"date", "upper"}

\* they hold "date" or "tsa"
HasKeywordHeader(t) == t.header \in {"date", "upper", "tsa"}

\* the records extract_table_data returns for a generated table
ExtractedFrom(t) == Denoted(DataRowSpecs(t), gen.year)

\* the first index of ts in the set I, 0 when there is none
FirstIndex(I) == IF I = {} THEN 0 ELSE CHOOSE i \in I : \A j \in I : i <= j

\* C11 (as stated): when a page has a table with a header cell containing
\* "date" in any letter case, the records returned are extracted from such a
\* table, not from a table without such a header, wherever the tables stand.
C11_DateTableSelected ==
    (pc = "parsed" /\ \E i \in 1..Len(gen.tables) : HasDateHeader(gen.tables[i])) =>
        \E i \in 1..Len(gen.tables) :
            /\ HasDateHeader(gen.tables[i])
            /\ out.df = ExtractedFrom(gen.tables[i])

\* C11 (amended): when a page has a table with a header cell containing
\* "date" in any letter case, the records returned are extracted from the
\* first table in document order whose header cells contain "date" or "tsa"
\* (any letter case): never from a table whose header has neither keyword,
\* and from a "tsa"-only table when one stands before the date table.
C11_FirstKeywordTable ==
    (pc = "parsed" /\ \E i \in 1..Len(gen.tables) : HasDateHeader(gen.tables[i])) =>
        LET k == FirstIndex({i \in 1..Len(gen.tables) : HasKeywordHeader(gen.tables[i])})
        IN  /\ out.exc = "none"
            /\ out.df = ExtractedFrom(gen.tables[k])

\* a table with another header and rows stands before a table headed "DATE",
\* and the records of the second are returned
C11_Witness ==
    /\ pc = "parsed"
    /\ Len(gen.tables) = 2
    /\ gen.tables[1].header = "other"
    /\ gen.tables[2].header = "upper"
    /\ ExtractedFrom(gen.tables[1]) # <<>>
    /\ ExtractedFrom(gen.tables[2]) # <<>>
    /\ ExtractedFrom(gen.tables[1]) # ExtractedFrom(gen.tables[2])
    /\ out.df = ExtractedFrom(gen.tables[2])

\* the first row of a table has at least 2 cells and its first cell holds a
\* '/' and a digit
FirstRowDateShaped(table) ==
    /\ table # <<>>
    /\ Len(table[1]) >= 2
    /\ Contains(table[1][1].text, "/")
    /\ \E i \in 1..Len(table[1][1].text) : IsDigit(table[1][1].text[i])

\* the table the two-phase choice names: the first table with a keyword
\* header, else the first table of the set I, else none
TwoPhaseChoice(ts, I) ==
    IF \E i \in 1..Len(ts) : HasKeywordHeader(ts[i])
    THEN FirstIndex({i \in 1..Len(ts) : HasKeywordHeader(ts[i])})
    ELSE FirstIndex(I)

\* C12 (as stated): the structural fallback is consulted only when no table
\* matches by its header; it selects the first table in document order whose
\* first row has at least 2 cells and whose first cell holds a '/' and a
\* digit; with no table selected, or empty markup, the frame is empty; no
\* exception in any case.
C12_TwoPhaseChoice ==
    pc = "parsed" =>
        LET ts == gen.tables
            k == TwoPhaseChoice(ts, {i \in 1..Len(ts) :
                                        FirstRowDateShaped(RenderTable(ts[i]))})
        IN  /\ out.exc = "none"
            /\ out.df = IF gen.blank \/ k = 0 THEN EmptyDataFrame
                        ELSE ExtractedFrom(ts[k])

\* C12 (amended): as C12, the fallback selecting the first table in document
\* order that has more than one row, whose first row has at least 2 cells and
\* whose first cell holds a '/' and a digit.
C12_TwoPhaseChoiceRows ==
    pc = "parsed" =>
        LET ts == gen.tables
            k == TwoPhaseChoice(ts, {i \in 1..Len(ts) :
                                        /\ Len(RenderTable(ts[i])) > 1
                                        /\ FirstRowDateShaped(RenderTable(ts[i]))})
        IN  /\ out.exc = "none"
            /\ out.df = IF gen.blank \/ k = 0 THEN EmptyDataFrame
                        ELSE ExtractedFrom(ts[k])

\* no table has a keyword header, the first table is header-less with a
\* single date-shaped row, and the records of the second, header-less with
\* two rows, are returned
C12_Witness ==
    /\ pc = "parsed"
    /\ Len(gen.tables) = 2
    /\ gen.tables[1].header = "none"
    /\ Len(gen.tables[1].rows) = 1
    /\ FirstRowDateShaped(RenderTable(gen.tables[1]))
    /\ gen.tables[2].header = "none"
    /\ out.df # <<>>
    /\ out.df = ExtractedFrom(gen.tables[2])

\* ------------------------------------------------------------------------
\* Properties of the year tag and of the page addresses (specification Spec)
\* ------------------------------------------------------------------------
\* C13: every record parse_table_data extracts for a year carries that year
\* as its tag, whatever the year of its date; the tags reach the combined
\* frame unchanged, and calculate_yoy_growth copies each into its record.
C13_YearTagCarried ==
    /\ \A i \in 1..Len(scraped) : \A j \in 1..Len(scraped[i].df) :
           scraped[i].df[j].year = scraped[i].year
    /\ \A r \in Range(df) :
           \E i \in 1..Len(scraped) :
               r.year = scraped[i].year /\ r \in Range(scraped[i].df)
    /\ "reconcile" \in steps =>
           /\ Len(df_yoy) = Len(df)
           /\ \A i \in 1..Len(df) : df_yoy[i].year = df[i].year

\* the reconciled frame holds a record whose tag is not the year of its date
C13_Witness ==
    /\ "reconcile" \in steps
    /\ \E i \in 1..Len(df_yoy) :
           /\ df_yoy[i].year # df_yoy[i].date.y
           /\ df_yoy[i].year = df[i].year

\* C14: in every range start_year..end_year, the most recent year (end_year)
\* is requested from the base URL and every other year from the base URL
\* suffixed with that year.
C14_UrlResolution ==
    \A i \in 1..Len(calls) :
        calls[i].op = "get" =>
            calls[i].url = IF year = end_year
                           THEN [base |-> TRUE, suffix |-> 0]
                           ELSE [base |-> TRUE, suffix |-> year]

\* ------------------------------------------------------------------------
\* Properties of calculate_yoy_growth (specification SpecYoY)
\* ------------------------------------------------------------------------
\* C15: calculate_yoy_growth returns one record per input record, in input
\* order, each with the date and the volume of its input record; also for
\* frames with duplicate dates and frames with no prior-year data.
C15_OnePerInput ==
    pc = "reconciled" =>
        /\ Len(df_yoy) = Len(df)
        /\ \A i \in 1..Len(df) :
               /\ df_yoy[i].date = df[i].date
               /\ df_yoy[i].passenger_volume = df[i].passenger_volume

\* a frame of three records, two of one date, none with a prior-year match
C15_Witness ==
    /\ pc = "reconciled"
    /\ Len(df) = 3
    /\ df[1].date = df[2].date
    /\ \A i \in 1..Len(df) : ~out[i].matched
    /\ Len(df_yoy) = 3

\* every record carries the year of its date as tag, and no two records
\* share a date
PlainSeries(s) ==
    /\ \A i \in 1..Len(s) : s[i].year = s[i].date.y
    /\ \A i, j \in 1..Len(s) : s[i].date = s[j].date => i = j

\* C16: when the frame holds a record for a date d and a record for the same
\* month and day one calendar year earlier, every variant pairs them: the
\* prior volume of d is the earlier record's volume and yoy_percentage is
\* (volume / prior_volume - 1) * 100.  Stated for frames of distinct dates
\* tagged with their own years and for positive volumes.
C16_ExactPairs ==
    pc = "reconciled" =>
        \A i, j \in 1..Len(df) :
            ( /\ PlainSeries(df)
              /\ df[j].date = Date(df[i].date.y - 1, df[i].date.m, df[i].date.d)
              /\ df[i].passenger_volume > 0
              /\ df[j].passenger_volume > 0 ) =>
                /\ out[i].matched
                /\ out[i].last_year_volume = df[j].passenger_volume
                /\ df_yoy[i].yoy_percentage =
                       Quotient((df[i].passenger_volume - df[j].passenger_volume) * 100,
                                df[j].passenger_volume)

\* the rows of s the search for a date finds
FoundOn(s, date) ==
    {k \in 1..Len(s) : s[k].date.m = date.m /\ s[k].date.d = date.d
                          /\ s[k].year = date.y}

\* the offsets of -3..+3 from a target at which the search finds rows
Hits(s, target) == {o \in (0 - 3)..3 : FoundOn(s, AddDays(target, o)) # {}}

Least(S) == CHOOSE x \in S : \A y \in S : x <= y

WindowExample ==
    <<VolumeRecord(Date(2023, 3, 17), 95000, 2023),
      VolumeRecord(Date(2024, 3, 15), 100000, 2024)>>

C18_AbsentWithoutDenominator ==
    pc = "reconciled" =>
        \A i \in 1..Len(df) :
            /\ (~out[i].matched \/ out[i].last_year_volume = 0) =>
                  /\ df_yoy[i].yoy_ratio = Absent
                  /\ df_yoy[i].yoy_percentage = Absent
            /\ df_yoy[i].yoy_ratio.present => df_yoy[i].yoy_ratio.den > 0
            /\ df_yoy[i].yoy_percentage.present => df_yoy[i].yoy_percentage.den > 0
            /\ (Hits(df, AddDays(df[i].date, 0 - 365)) = {}) => ~out[i].matched

\* a record of positive volume is matched to a prior-year record of volume 0
\* and another record has no match at all
C18_Witness ==
    /\ pc = "reconciled"
    /\ \E i \in 1..Len(df) :
          /\ out[i].matched
          /\ out[i].last_year_volume = 0
          /\ df[i].passenger_volume > 0
          /\ df_yoy[i].yoy_ratio = Absent
          /\ df_yoy[i].yoy_percentage = Absent
    /\ \E i \in 1..Len(df) : ~out[i].matched /\ df_yoy[i].yoy_ratio = Absent

\* C19: yoy_percentage is present exactly when yoy_ratio is, and is then
\* (yoy_ratio - 1) * 100; also for a current volume of 0 against a positive
\* prior volume (ratio 0, percentage -100).
C19_PercentageIffRatio ==
    pc = "reconciled" =>
        \A i \in 1..Len(df) :
            LET ratio == df_yoy[i].yoy_ratio
            IN  /\ df_yoy[i].yoy_percentage.present = ratio.present
                /\ ratio.present =>
                      df_yoy[i].yoy_percentage =
                          Quotient((ratio.num - ratio.den) * 100, ratio.den)

\* C21: calculate_yoy_growth leaves the frame it is given as it was (same
\* records, order and columns: month and day are added to a copy), and the
\* frame it returns is built anew, with the five columns of a YoY record.
C21_InputUnchanged ==
    [][pc = "series_in" =>
          /\ df' = df
          /\ \A i \in 1..Len(df') :
                 DOMAIN df'[i] = {"date", "passenger_volume", "year"}
          /\ \A i \in 1..Len(df_yoy') :
                 DOMAIN df_yoy'[i] = {"date", "passenger_volume", "year",
                                      "yoy_ratio", "yoy_percentage"}]_vars

\* a frame of three records has been reconciled, one of them with a match
C21_Witness ==
    /\ pc = "reconciled"
    /\ Len(df) = 3
    /\ Len(df_yoy) = 3
    /\ \E i \in 1..Len(df) : out[i].matched
    /\ \A i \in 1..Len(df) : DOMAIN df[i] = {"date", "passenger_volume", "year"}

C24_MatchNearTarget ==
    pc = "reconciled" =>
        \A i \in 1..Len(df) :
            out[i].matched =>
                LET found == ToOrdinal(out[i].last_year_data[1].date)
                    target == ToOrdinal(df[i].date) - 365
                    reach == IF Windowed(variant) THEN 3 ELSE 0
                IN  target - reach <= found /\ found <= target + reach

\* C25: when no table has a keyword header and the structural fallback
\* selects a header-less table for its date-shaped first row, that first
\* row is extracted too: a well-formed first row gives the first record.
C25_FirstRowExtracted ==
    pc = "parsed" =>
        LET ts == gen.tables
            k == TwoPhaseChoice(ts, {i \in 1..Len(ts) :
                                        /\ Len(RenderTable(ts[i])) > 1
                                        /\ FirstRowDateShaped(RenderTable(ts[i]))})
        IN  ( /\ ~gen.blank
              /\ k # 0
              /\ ts[k].header = "none"
              /\ ts[k].rows[1].kind = "good" ) =>
                /\ out.df # <<>>
                /\ out.df[1].date = ts[k].rows[1].date
                /\ out.df[1].passenger_volume = ts[k].rows[1].vol
                /\ out.df = Denoted(ts[k].rows, gen.year)

\* ------------------------------------------------------------------------
\* Order and termination of scrape_all_years (specification Spec)
\* ------------------------------------------------------------------------
\* the years whose scrape_year call has returned are start_year, the next
\* year, ... in this order; the requests under way are those of the one year
\* after them, at most max_retries of them
OneYearAtATime ==
    /\ \A i \in 1..Len(scraped) : scraped[i].year = start_year + i - 1
    /\ pc \in {"get", "backoff", "parse"} =>
          /\ Len(scraped) = year - start_year
          /\ year <= end_year
          /\ Cardinality({i \in 1..Len(calls) : calls[i].op = "get"}) <= max_retries
          /\ \A i \in 1..Len(calls) : calls[i].url = url_of(year)
    /\ pc = "pause" => Len(scraped) = year - start_year + 1
    /\ (pc = "returned" /\ exc = "none") =>
          Len(scraped) = end_year - start_year + 1

\* the loop moves to the next year only through the pause, and the first
\* request of a year follows the start of the call or a pause
PauseBetweenYears ==
    /\ year' # year => (pc = "pause" /\ year' = year + 1 /\ pc' = "loop")
    /\ (pc' = "get" /\ pc # "get" /\ pc # "backoff") =>
          (pc = "loop" /\ calls' = <<>>)
    /\ (pc = "parse" /\ pc' # "parse") => (pc' = "pause" \/ pc' = "returned")

\* scrape_all_years has not returned
InScrape == pc \in {"loop", "get", "backoff", "parse", "pause"}

\* the statements left to run at most, counted per year still to visit and
\* per position within the year
StepsLeft ==
    IF ~InScrape THEN 0
    ELSE (end_year + 1 - year) * 20
         + CASE pc = "loop" -> 19
             [] pc = "get" -> 15 - 4 * attempt
             [] pc = "backoff" -> 13 - 4 * attempt
             [] pc = "parse" -> 3
             [] pc = "pause" -> 1

\* a statement of the scrape can run; ParseYear has no guard but its
\* position
ScrapeCanStep ==
    \/ ENABLED BeginYear
    \/ ENABLED AttemptOk
    \/ ENABLED Backoff
    \/ pc = "parse"
    \/ ENABLED Pause
    \/ ENABLED Combine

\* C26: scrape_all_years visits the years of start_year..end_year once each
\* in ascending order, finishes the fetch (at most 3 attempts) and the
\* extraction of a year before the next year's first request, pauses
\* between two years, and returns after the last year whatever the
\* outcomes: until it returns a next statement can always run, and every
\* statement lowers a bounded count of the statements left.
C26_SequentialAndTerminates ==
    /\ [](OneYearAtATime /\ StepsLeft >= 0 /\ (InScrape => ScrapeCanStep))
    /\ [][/\ PauseBetweenYears
          /\ InScrape => StepsLeft' < StepsLeft
          /\ (InScrape /\ ~InScrape') => (pc' = "returned" /\ exc' = "none")]_vars

\* the call has returned after three years, one of them given up after
\* its third attempt and one fetched
C26_Witness ==
    /\ pc = "returned"
    /\ exc = "none"
    /\ Len(scraped) = 3
    /\ \E i \in 1..Len(scraped) : ~scraped[i].fetched
    /\ \E i \in 1..Len(scraped) : scraped[i].fetched /\ scraped[i].df # <<>>

\* ------------------------------------------------------------------------
\* Properties of run_daily_report and lambda_handler (specification Spec)
\* ------------------------------------------------------------------------
\* C28: a run sends at most one email, and only after a non-empty scrape,
\* the reconciliation and a chart, which takes a record with a
\* yoy_percentage; the run ends with True exactly when the email was sent
\* and with False otherwise, never with an exception; lambda_handler answers
\* 200 exactly when the run returned True and 500 otherwise, also when the
\* reporter could not be constructed.
C28_GatedPipeline ==
    /\ sent <= 1
    /\ sent = 1 =>
          /\ exc = "none"
          /\ df # EmptyDataFrame
          /\ {"reconcile", "chart", "stats"} \subseteq steps
          /\ \E i \in 1..Len(df_yoy) : df_yoy[i].yoy_percentage.present
          /\ ret = "True"
    /\ pc = "done" => ret \in {"True", "False"}
    /\ ret = "True" => (sent = 1 /\ pc \in {"done", "handled"})
    /\ ret = "False" => sent = 0
    /\ (status # 0) <=> (pc = "handled")
    /\ pc = "handled" =>
          /\ variant = "lambda"
          /\ status = IF ret = "True" THEN 200 ELSE 500
          /\ ret = "none" => (scraped = <<>> /\ calls = <<>> /\ sent = 0)

\* the handler has answered 200 after a run that sent its email
C28_Witness ==
    /\ pc = "handled"
    /\ status = 200
    /\ sent = 1
    /\ ret = "True"

\* ------------------------------------------------------------------------
\* Properties of the summary statistics (specification SpecYoY)
\* ------------------------------------------------------------------------
\* C27: in the summary, latest_yoy is "N/A" exactly when the yoy_percentage
\* of the latest record is absent, and a present percentage, 0.0 included,
\* is rendered as a percentage.
C27_AbsentDistinguishable ==
    pc = "summarised" =>
        LET latest == df_yoy[LatestIndex(df_yoy)]
        IN  /\ (stats.latest_yoy.text = "N/A") <=> ~latest.yoy_percentage.present
            /\ latest.yoy_percentage.present => stats.latest_yoy.text = "percent"

\* C30: the year-to-date YoY of the summary is the current year's average
\* volume against the average of the prior-year records up to the same
\* month and day as the latest date, and it is "N/A" only when there is no
\* such prior-year record.  Stated for frames of distinct dates tagged with
\* their own years and of positive volumes.
C30_YtdLikeWithLike ==
    (pc = "summarised" /\ PlainSeries(df)
        /\ \A i \in 1..Len(df) : df[i].passenger_volume > 0) =>
        LET latest_date == MaxDate(df_yoy)
            prev == SelectSeq(df_yoy, LAMBDA r :
                        /\ r.date.y = latest_date.y - 1
                        /\ DateLeq(r.date, Date(latest_date.y - 1, latest_date.m,
                                                latest_date.d)))
            current == SelectSeq(df_yoy, LAMBDA r : r.date.y = latest_date.y)
            like == YtdYoY(MeanVolume(current), MeanVolume(prev))
        IN  /\ (stats.ytd_yoy.text = "N/A") <=> (prev = <<>>)
            /\ prev # <<>> =>
                   stats.ytd_yoy = [text |-> "percent", tenths |-> RoundTenths(like)]

\* ------------------------------------------------------------------------
\* Properties of the scheduling loop (specification SpecSchedule)
\* ------------------------------------------------------------------------
\* C29: the moment wait_until_next_905am_eastern sleeps until is 9:05 AM
\* Eastern on a Monday to Friday, later than the moment of the call, and no
\* such moment lies between; the loop starts the report at most once on an
\* Eastern weekday and never on a Saturday or Sunday.
C29_NextWeekdayMorning ==
    LET WeekdayMorning(utc) ==
            /\ astimezone(dst, utc).wall % 1440 = 9 * 60 + 5
            /\ weekday(astimezone(dst, utc)) < 5
        EasternDay(utc) == astimezone(dst, utc).wall \div 1440
    IN  /\ pc = "report" =>
              /\ WeekdayMorning(now_utc)
              /\ now_utc > asked
              /\ \A utc \in (asked + 1)..(now_utc - 1) : ~WeekdayMorning(utc)
        /\ \A i \in 1..Len(runs) :
              /\ weekday(astimezone(dst, runs[i])) < 5
              /\ \A j \in 1..Len(runs) :
                    EasternDay(runs[i]) = EasternDay(runs[j]) => i = j

====
